---- MODULE Spec2Model ----
(***************************************************************************)
(* Model of torch_glow/src/ShapeInferenceEngine.cpp: the engine state      *)
(* (shapeMap_, outputShape_), the walk of run() over the graph's nodes,    *)
(* and the per-operator shape rules.                                       *)
(*                                                                         *)
(* A graph value (a torch::jit::Value) is a natural number.  A shape or an *)
(* intValue (std::vector<int64_t>) is a sequence of integers; the source's *)
(* 0-based index k is At(s, k).  A VariableMeta is a record               *)
(* [shape, intValue]; shapeMap_ is a function whose DOMAIN is the set of   *)
(* values that have an entry.  An Expected<T> is a record [st, err, val]   *)
(* with st = "ok" (val is the value), "err" (err is the message) or "ub"   *)
(* (the C++ has no defined behaviour on these arguments).                  *)
(*                                                                         *)
(* earlier is a history variable: what getGraphOutputShape() and the store *)
(* held when run() was called again on the engine, one record per earlier  *)
(* successful run.                                                         *)
(***************************************************************************)
EXTENDS Integers, Sequences, FiniteSets, TLC

VARIABLES graph_, inputs_, hasEndOffset_, shapeMap_, outputShape_, pc, nodeIdx, result,
          earlier

vars == <<graph_, inputs_, hasEndOffset_, shapeMap_, outputShape_, pc, nodeIdx, result,
          earlier>>

----------------------------------------------------------------------------
(* Bounds of the model.                                                    *)

MaxNodes == 2
MaxDim == 3
MaxRank == 2
MaxChunks == 3
MaxStep == 2
MaxInputs == 2

----------------------------------------------------------------------------
(* C++ arithmetic and containers.                                          *)

Abs(x) == IF x < 0 THEN -x ELSE x

Max(a, b) == IF a >= b THEN a ELSE b

\* int64_t division truncates toward zero.
CDiv(a, b) ==
  IF (a < 0) # (b < 0) THEN -(Abs(a) \div Abs(b)) ELSE Abs(a) \div Abs(b)

CMod(a, b) == a - b * CDiv(a, b)

\* std::vector operator[] with the source's 0-based index.
At(s, k) == s[k + 1]

SetAt(s, k, v) == [s EXCEPT ![k + 1] = v]

InRange(s, k) == k >= 0 /\ k < Len(s)

\* std::vector::insert(begin() + k, v)
InsertAt(s, k, v) == SubSeq(s, 1, k) \o <<v>> \o SubSeq(s, k + 1, Len(s))

Meta(s, iv) == [shape |-> s, intValue |-> iv]

Ok(v) == [st |-> "ok", err |-> "", val |-> v]

Err(m) == [st |-> "err", err |-> m, val |-> <<>>]

Undefined == [st |-> "ub", err |-> "", val |-> <<>>]

----------------------------------------------------------------------------
(* Operator rules.                                                         *)

\* The loop of binaryOp over i = 0 .. dim-1, j = -1 - i.  t1[d1 + j] with
\* i >= d1 indexes t1 with a wrapped size_t, i.e. reads the (i - d1 + 1)-th
\* word before the vector's storage: g[i - d1 + 1] is the word found there.
RECURSIVE binaryOpLoop(_, _, _, _, _)
binaryOpLoop(t0, t1, i, shape, g) ==
  LET d0 == Len(t0)
      d1 == Len(t1)
      dim == Max(d0, d1)
      a == At(t0, d0 - 1 - i)
      b == IF i < d1 THEN At(t1, d1 - 1 - i) ELSE g[i - d1 + 1]
  IN IF i >= dim THEN Ok(shape)
     ELSE IF i >= d0 \/ a = 1
          THEN binaryOpLoop(t0, t1, i + 1, SetAt(shape, dim - 1 - i, b), g)
     ELSE IF i >= d1 \/ b = 1
          THEN binaryOpLoop(t0, t1, i + 1, SetAt(shape, dim - 1 - i, a), g)
     ELSE IF b # a
          THEN Err("The size of tensor a must match the size of tensor b")
     ELSE binaryOpLoop(t0, t1, i + 1, SetAt(shape, dim - 1 - i, b), g)

binaryOp(variableMetas, g) ==
  IF Len(variableMetas) # 2 /\ Len(variableMetas) # 3
  THEN Err("Expected two or three inputs shapes of this operation.")
  ELSE LET t0 == At(variableMetas, 0).shape
           t1 == At(variableMetas, 1).shape
           d0 == Len(t0)
           d1 == Len(t1)
       IN IF d1 = 1 THEN Ok(t0)
          ELSE binaryOpLoop(t0, t1, 0, [k \in 1..Max(d0, d1) |-> 0], g)

mm(variableMetas) ==
  IF Len(variableMetas) # 2
  THEN Err("Expected two inputs shapes of this operation.")
  ELSE LET t0 == At(variableMetas, 0).shape
           t1 == At(variableMetas, 1).shape
       IN IF ~(Len(t1) = 2 /\ Len(t0) = 2) THEN Err("Expected 2-dimensional tensor.")
          ELSE IF At(t0, 1) # At(t1, 0)
               THEN Err("The size of tensor a at dimension 1 must match the size of tensor b at dimension 0.")
          ELSE Ok(<<At(t0, 0), At(t1, 1)>>)

bmm(variableMetas) ==
  IF Len(variableMetas) # 2
  THEN Err("Expected two inputs shapes of this operation.")
  ELSE LET t0 == At(variableMetas, 0).shape
           t1 == At(variableMetas, 1).shape
       IN IF ~(Len(t0) = 3 /\ Len(t1) = 3) THEN Err("Expected 3-dimensional tensor.")
          ELSE IF At(t0, 0) # At(t1, 0)
               THEN Err("Expected tensors to have same size at dimension 0")
          ELSE IF At(t0, 2) # At(t1, 1)
               THEN Err("The size of tensor a at dimension 2 must match the size of tensor b at dimension 1")
          ELSE Ok(<<At(t0, 0), At(t0, 1), At(t1, 2)>>)

addmm(variableMetas, g) ==
  IF ~(Len(variableMetas) >= 3)
  THEN Err("Expected at least three inputs shapes")
  ELSE LET t0 == At(variableMetas, 0)
           t1 == At(variableMetas, 1)
           t2 == At(variableMetas, 2)
           prod == mm(<<t1, t2>>)
       IN IF Len(t2.shape) = 1 THEN binaryOp(<<t0, t1>>, g)
          ELSE IF prod.st # "ok" THEN prod
          ELSE binaryOp(<<t0, Meta(prod.val, <<>>)>>, g)

\* Variant: the piece size is the floor of size / chunks.
constantChunk_Floor(variableMetas, chunks, dim0) ==
  IF Len(variableMetas) # 1 THEN Err("Expected one input")
  ELSE LET in == At(variableMetas, 0).shape
           dim == IF dim0 < 0 THEN dim0 + Len(in) ELSE dim0
       IN IF ~InRange(in, dim) THEN Err("Dim value is out of range.")
          ELSE IF chunks = 0 THEN Undefined
          ELSE LET c == CDiv(At(in, dim), chunks)
                   r == At(in, dim) - c * (chunks - 1)
               IN Ok([i \in 1..Max(chunks, 0) |->
                        SetAt(in, dim, IF i - 1 = chunks - 1 THEN r ELSE c)])

\* dim < shape.size() compares the int64_t as a size_t: a negative dim is
\* not below any size, which InRange states.
constantChunk(variableMetas, chunks, dim0) ==
  IF Len(variableMetas) # 1 THEN Err("Expected one input")
  ELSE LET in == At(variableMetas, 0).shape
           dim == IF dim0 < 0 THEN dim0 + Len(in) ELSE dim0
       IN IF ~InRange(in, dim) THEN Err("Dim value is out of range.")
          ELSE IF chunks = 0 THEN Undefined
          ELSE LET c == CDiv(At(in, dim) + chunks - 1, chunks)
                   r == At(in, dim) - c * (chunks - 1)
               IN Ok([i \in 1..Max(chunks, 0) |->
                        SetAt(in, dim, IF i - 1 = chunks - 1 THEN r ELSE c)])

\* The inner loop of fusedConcat over j for input i.
RECURSIVE fusedConcatDims(_, _, _, _)
fusedConcatDims(shape, other, dim, j) ==
  IF j >= Len(shape) THEN Ok(shape)
  ELSE IF j = dim
       THEN fusedConcatDims(SetAt(shape, dim, At(shape, dim) + At(other, dim)), other, dim, j + 1)
  ELSE IF At(shape, j) # At(other, j)
       THEN Err("Sizes of tensors must match except in dimension.")
  ELSE fusedConcatDims(shape, other, dim, j + 1)

RECURSIVE fusedConcatLoop(_, _, _, _)
fusedConcatLoop(variableMetas, shape, dim, i) ==
  IF i >= Len(variableMetas) THEN Ok(shape)
  ELSE IF Len(shape) # Len(At(variableMetas, i).shape)
       THEN Err("All inputs must have the same number of dimensions.")
  ELSE LET r == fusedConcatDims(shape, At(variableMetas, i).shape, dim, 0)
       IN IF r.st # "ok" THEN r ELSE fusedConcatLoop(variableMetas, r.val, dim, i + 1)

fusedConcat(variableMetas, dim0) ==
  IF ~(Len(variableMetas) >= 1) THEN Err("Expected at least 1 inputs")
  ELSE IF Len(variableMetas) = 1 THEN Ok(At(variableMetas, 0).shape)
  ELSE LET shape == At(variableMetas, 0).shape
           inDims == Len(shape)
           dim == IF dim0 < 0 THEN dim0 + inDims ELSE dim0
       IN IF ~(dim < inDims /\ dim >= 0) THEN Err("Dim value is out of range.")
          ELSE fusedConcatLoop(variableMetas, shape, dim, 1)

\* Variant: the length is (end - start) / step with no rounding up, and start
\* and end are taken as given.
slice_NoRoundUp(variableMetas) ==
  IF Len(variableMetas) # 5 THEN Err("Expected 5 inputs")
  ELSE LET dim == At(At(variableMetas, 1).intValue, 0)
           start0 == At(At(variableMetas, 2).intValue, 0)
           end0 == At(At(variableMetas, 3).intValue, 0)
           step == At(At(variableMetas, 4).intValue, 0)
           shape == At(variableMetas, 0).shape
           inDims == At(shape, dim)
           start == IF start0 <= -inDims THEN 0
                    ELSE IF start0 < 0 THEN start0 + inDims ELSE start0
           end == IF end0 > inDims THEN inDims
                  ELSE IF end0 > -inDims /\ end0 < 0 THEN end0 + inDims ELSE end0
       IN IF start0 >= inDims \/ end0 <= -inDims \/ start >= end
          THEN Ok(SetAt(shape, dim, 0))
          ELSE Ok(SetAt(shape, dim, CDiv(end - start, step)))

slice(variableMetas) ==
  IF Len(variableMetas) # 5 THEN Err("Expected 5 inputs")
  ELSE IF \E i \in 1..4 : Len(At(variableMetas, i).shape) # 1
       THEN Err("Expected int in Slice.")
  ELSE IF \E i \in 1..4 : At(variableMetas, i).intValue = <<>> THEN Undefined
  ELSE LET dim == At(At(variableMetas, 1).intValue, 0)
           start0 == At(At(variableMetas, 2).intValue, 0)
           end0 == At(At(variableMetas, 3).intValue, 0)
           step == At(At(variableMetas, 4).intValue, 0)
           shape == At(variableMetas, 0).shape
       IN IF ~InRange(shape, dim) THEN Undefined
          ELSE LET inDims == At(shape, dim)
                   start == IF start0 <= -inDims THEN 0
                            ELSE IF start0 > -inDims /\ start0 < 0 THEN start0 + inDims
                            ELSE start0
                   end == IF end0 > inDims THEN inDims
                          ELSE IF end0 > -inDims /\ end0 < 0 THEN end0 + inDims
                          ELSE end0
               IN IF start0 >= inDims \/ end0 <= -inDims THEN Ok(SetAt(shape, dim, 0))
                  ELSE IF start >= end THEN Ok(SetAt(shape, dim, 0))
                  ELSE IF step = 0 THEN Undefined
                  ELSE Ok(SetAt(shape, dim,
                            CDiv(end - start, step)
                              + (IF CMod(end - start, step) # 0 THEN 1 ELSE 0)))

RECURSIVE Product(_)
Product(s) == IF s = <<>> THEN 1 ELSE Head(s) * Product(Tail(s))

\* The positions of the target list that hold the placeholder -1; negIndex is
\* the first of them, and a second one makes the rule fail.
NegIndices(iv) == {i \in 0..(Len(iv) - 1) : At(iv, i) = -1}

reshape(variableMetas) ==
  IF Len(variableMetas) # 2 THEN Err("Expected two inputs shapes")
  ELSE LET s0 == Product(At(variableMetas, 0).shape)
           target == At(variableMetas, 1).intValue
           s1 == Product(target)
           neg == NegIndices(target)
       IN IF Cardinality(neg) > 1 THEN Err("Unable to infer undetermined dimension")
          ELSE IF s1 = 0 THEN Undefined
          ELSE IF CMod(s0, s1) # 0 THEN Err("Reshape size is invalid for input size.")
          ELSE IF neg # {}
               THEN Ok(SetAt(target, CHOOSE i \in neg : TRUE, CDiv(-s0, s1)))
          ELSE Ok(target)

RECURSIVE permuteLoop(_, _, _, _)
permuteLoop(in, axes, k, shape) ==
  IF k >= Len(axes) THEN Ok(shape)
  ELSE IF ~(At(axes, k) >= 0)
       THEN Err("Negative shuffle dimensions not supported by Glow yet.")
  ELSE IF ~(At(axes, k) < Len(in))
       THEN Err("All shuffle dimensions must be less than the rank of the input.")
  ELSE permuteLoop(in, axes, k + 1, Append(shape, At(in, At(axes, k))))

permute(variableMetas) ==
  IF Len(variableMetas) # 2 THEN Err("Expected two inputs shapes")
  ELSE IF Len(At(variableMetas, 0).shape) # Len(At(variableMetas, 1).intValue)
       THEN Err("Shuffle for permute must has the same number of dimensions as the input tensor.")
  ELSE permuteLoop(At(variableMetas, 0).shape, At(variableMetas, 1).intValue, 0, <<>>)

RECURSIVE listConstructLoop(_, _, _)
listConstructLoop(variableMetas, k, intValueList) ==
  IF k >= Len(variableMetas) THEN Ok(intValueList)
  ELSE IF Len(At(variableMetas, k).shape) # 1
       THEN Err("Expected int type input in listConstruct.")
  ELSE IF At(variableMetas, k).intValue = <<>> THEN Undefined
  ELSE listConstructLoop(variableMetas, k + 1,
                         Append(intValueList, At(At(variableMetas, k).intValue, 0)))

listConstruct(variableMetas) ==
  IF ~(Len(variableMetas) >= 1) THEN Err("Expected at least 1 inputs")
  ELSE listConstructLoop(variableMetas, 0, <<>>)

fusedStack_NegRank(variableMetas, dim0) ==
  IF ~(Len(variableMetas) >= 1) THEN Err("Expected at least 1 inputs")
  ELSE IF Len(variableMetas) = 1 THEN Ok(At(variableMetas, 0).shape)
  ELSE LET shape == At(variableMetas, 0).shape
           inDims == Len(shape)
           dim == IF dim0 < 0 THEN dim0 + inDims ELSE dim0
       IN IF ~(dim < inDims + 1 /\ dim >= 0)
          THEN Err("Dim must be less than the rank of inputs plus the added dimension")
          ELSE IF \E k \in 1..Len(variableMetas) : variableMetas[k].shape # shape
               THEN Err("All inputs must have same shape")
          ELSE Ok(InsertAt(shape, dim, Len(variableMetas)))

fusedStack(variableMetas, dim0) ==
  IF ~(Len(variableMetas) >= 1) THEN Err("Expected at least 1 inputs")
  ELSE IF Len(variableMetas) = 1 THEN Ok(At(variableMetas, 0).shape)
  ELSE LET shape == At(variableMetas, 0).shape
           inDims == Len(shape)
           dim == IF dim0 < 0 THEN dim0 + inDims + 1 ELSE dim0
       IN IF ~(dim < inDims + 1 /\ dim >= 0)
          THEN Err("Dim must be less than the rank of inputs plus the added dimension")
          ELSE IF \E k \in 1..Len(variableMetas) : variableMetas[k].shape # shape
               THEN Err("All inputs must have same shape")
          ELSE Ok(InsertAt(shape, dim, Len(variableMetas)))

EndOffset(hasEndOffset) == IF hasEndOffset THEN 1 ELSE 0

embeddingBag(variableMetas, hasEndOffset) ==
  IF Len(variableMetas) # 8 THEN Err("Expected 8 inputs")
  ELSE IF Len(At(variableMetas, 1).shape) = 1
       THEN IF Len(At(variableMetas, 2).shape) # 1 THEN Err("Expected 1D offset")
            ELSE IF Len(At(variableMetas, 0).shape) < 2 THEN Undefined
            ELSE Ok(<<At(At(variableMetas, 2).shape, 0) - EndOffset(hasEndOffset),
                      At(At(variableMetas, 0).shape, 1)>>)
  ELSE IF Len(At(variableMetas, 1).shape) = 2
       THEN IF Len(At(variableMetas, 0).shape) < 2 THEN Undefined
            ELSE Ok(<<At(At(variableMetas, 1).shape, 0), At(At(variableMetas, 0).shape, 1)>>)
  ELSE Err("Only support 1D and 2D Input in Embedding bag.")

embeddingBagByteRowwiseOffsets(variableMetas, hasEndOffset) ==
  IF Len(variableMetas) # 8 THEN Err("Expected 8 inputs")
  ELSE IF Len(At(variableMetas, 2).shape) < 1 \/ Len(At(variableMetas, 0).shape) < 2
       THEN Undefined
  ELSE Ok(<<At(At(variableMetas, 2).shape, 0) - EndOffset(hasEndOffset),
            At(At(variableMetas, 0).shape, 1) - 8>>)

\* A node is a record [kind, in, out, dim, chunks, value, otype, sizes]:
\* its operator, input and output values, the attributes dim, chunks and
\* value (integer), the declared type of its output and the sizes of a
\* tensor-valued value attribute.
primConstant(node) ==
  IF node.otype = "Float" THEN Ok(<<1>>)
  ELSE IF node.otype = "Int" THEN Ok(<<node.value>>)
  ELSE IF node.otype = "Bool" THEN Ok(<<node.value>>)
  ELSE IF node.otype = "None" THEN Ok(<<>>)
  ELSE IF node.otype = "Tensor" THEN Ok(node.sizes)
  ELSE Ok(<<>>)

----------------------------------------------------------------------------
(* The engine.                                                             *)

BinaryKinds == {"aten::sub", "aten::pow", "aten::mul", "aten::add"}

UnaryKinds == {"aten::tanh", "aten::relu", "aten::sigmoid"}

\* Variant: the entries are read with operator[] and no CHECK, so a value
\* without an entry reads as a default VariableMeta.
getNodeInputShape_NoCheck(node, shapeMap) ==
  [check |-> TRUE,
   metas |-> [k \in 1..Len(node.in) |->
                IF node.in[k] \in DOMAIN shapeMap THEN shapeMap[node.in[k]]
                ELSE Meta(<<>>, <<>>)]]

\* getNodeInputShape: CHECK(it != shapeMap_.end()) for every input, then the
\* stack of the inputs' entries.
getNodeInputShape(node, shapeMap) ==
  IF \E k \in 1..Len(node.in) : node.in[k] \notin DOMAIN shapeMap
  THEN [check |-> FALSE, metas |-> <<>>]
  ELSE [check |-> TRUE, metas |-> [k \in 1..Len(node.in) |-> shapeMap[node.in[k]]]]

\* One rule result r as outputShapesOrValues, a vector of one element.
Single(r) == IF r.st = "ok" THEN Ok(<<r.val>>) ELSE r

\* The dispatch of shapeOnNode on the node's symbol: outputShapesOrValues,
\* or the rule's failure.
ruleDispatch(node, inputMetas, hasEndOffset, g) ==
  IF node.kind = "glow::fused_stack" THEN Single(fusedStack(inputMetas, node.dim))
  ELSE IF node.kind = "fb::embedding_bag_byte_rowwise_offsets"
       THEN Single(embeddingBagByteRowwiseOffsets(inputMetas, hasEndOffset))
  ELSE IF node.kind = "prim::Constant" THEN Single(primConstant(node))
  ELSE IF node.kind \in UnaryKinds
       THEN IF Len(inputMetas) # 1 THEN Err("Expected 1 input shape for operators.")
            ELSE Ok(<<At(inputMetas, 0).shape>>)
  ELSE IF node.kind \in BinaryKinds THEN Single(binaryOp(inputMetas, g))
  ELSE IF node.kind = "aten::mm" THEN Single(mm(inputMetas))
  ELSE IF node.kind = "aten::addmm" THEN Single(addmm(inputMetas, g))
  ELSE IF node.kind = "aten::bmm" THEN Single(bmm(inputMetas))
  ELSE IF node.kind = "prim::FusedConcat" THEN Single(fusedConcat(inputMetas, node.dim))
  ELSE IF node.kind = "prim::ConstantChunk"
       THEN constantChunk(inputMetas, node.chunks, node.dim)
  ELSE IF node.kind = "prim::ListConstruct" THEN Single(listConstruct(inputMetas))
  ELSE IF node.kind = "aten::slice" THEN Single(slice(inputMetas))
  ELSE IF node.kind = "aten::reshape" THEN Single(reshape(inputMetas))
  ELSE IF node.kind = "aten::permute" THEN Single(permute(inputMetas))
  ELSE IF node.kind = "aten::embedding_bag"
       THEN Single(embeddingBag(inputMetas, hasEndOffset))
  ELSE Err("Node's operator is not supported")

\* shapeMap_[v].shape = s: operator[] creates a default entry when v has none
\* and leaves the intValue of an existing one.
SetShape(shapeMap, v, s) ==
  IF v \in DOMAIN shapeMap THEN [shapeMap EXCEPT ![v].shape = s]
  ELSE (v :> Meta(s, <<>>)) @@ shapeMap

SetMeta(shapeMap, v, s, iv) == (v :> Meta(s, iv)) @@ shapeMap

\* for (i = 0; i < node->outputs().size(); i++)
\*   shapeMap_[node->output(i)].shape = outputShapesOrValues[i];
RECURSIVE storeOutputs(_, _, _, _)
storeOutputs(shapeMap, outs, outputShapesOrValues, i) ==
  IF i >= Len(outs) THEN shapeMap
  ELSE storeOutputs(SetShape(shapeMap, At(outs, i), At(outputShapesOrValues, i)),
                    outs, outputShapesOrValues, i + 1)

\* Variant: every constant is stored as a shape, whatever its declared type.
putOutput_ShapeOnly(node, shapeMap, outputShapesOrValues) ==
  storeOutputs(shapeMap, node.out, outputShapesOrValues, 0)

\* Variant: the result is also written over the entry of the node's first
\* input, as an in-place operator would.
putOutput_InPlace(node, shapeMap, outputShapesOrValues) ==
  LET m == IF node.kind \in {"prim::Constant", "prim::ListConstruct", "aten::embedding_bag"}
           THEN SetShape(shapeMap, At(node.out, 0), At(outputShapesOrValues, 0))
           ELSE storeOutputs(shapeMap, node.out, outputShapesOrValues, 0)
  IN IF node.in # <<>> /\ At(node.in, 0) \in DOMAIN m
     THEN [m EXCEPT ![At(node.in, 0)].shape = At(outputShapesOrValues, 0)]
     ELSE m

\* "Put output into map" of shapeOnNode.
putOutput(node, shapeMap, outputShapesOrValues) ==
  IF node.kind = "prim::Constant"
  THEN IF node.otype = "Tensor"
       THEN SetShape(shapeMap, At(node.out, 0), At(outputShapesOrValues, 0))
       ELSE SetMeta(shapeMap, At(node.out, 0), <<1>>, At(outputShapesOrValues, 0))
  ELSE IF node.kind = "prim::ListConstruct"
       THEN SetMeta(shapeMap, At(node.out, 0),
                    <<Len(At(outputShapesOrValues, 0)), 1>>, At(outputShapesOrValues, 0))
  ELSE IF node.kind = "aten::embedding_bag"
       THEN SetShape(shapeMap, At(node.out, 0), At(outputShapesOrValues, 0))
  ELSE storeOutputs(shapeMap, node.out, outputShapesOrValues, 0)

\* Variant: the entries of the node's outputs are created before the rule
\* runs, so a failing rule leaves them behind.
shapeOnNode_StoreOnError(node, shapeMap, hasEndOffset, g) ==
  LET in == getNodeInputShape(node, shapeMap)
      r == ruleDispatch(node, in.metas, hasEndOffset, g)
      early == storeOutputs(shapeMap, node.out, [k \in 1..Len(node.out) |-> <<>>], 0)
  IN IF ~in.check THEN [st |-> "check", err |-> "", map |-> shapeMap]
     ELSE IF r.st = "err" THEN [st |-> "err", err |-> r.err, map |-> early]
     ELSE IF r.st = "ub" THEN [st |-> "ub", err |-> "", map |-> shapeMap]
     ELSE [st |-> "ok", err |-> "", map |-> putOutput(node, shapeMap, r.val)]

\* shapeOnNode: st is "ok" (Error::success, map is the new shapeMap_), "err"
\* (the rule's Error err), "check" (the CHECK of getNodeInputShape failed) or
\* "ub".
shapeOnNode(node, shapeMap, hasEndOffset, g) ==
  LET in == getNodeInputShape(node, shapeMap)
      r == ruleDispatch(node, in.metas, hasEndOffset, g)
  IN IF ~in.check THEN [st |-> "check", err |-> "", map |-> shapeMap]
     ELSE IF r.st = "err" THEN [st |-> "err", err |-> r.err, map |-> shapeMap]
     ELSE IF r.st = "ub" THEN [st |-> "ub", err |-> "", map |-> shapeMap]
     ELSE IF node.kind \in {"prim::Constant", "prim::ListConstruct"} /\ Len(node.out) # 1
          THEN [st |-> "ub", err |-> "", map |-> shapeMap]
     ELSE IF node.kind \notin {"prim::Constant", "prim::ListConstruct", "aten::embedding_bag"}
             /\ Len(node.out) > Len(r.val)
          THEN [st |-> "ub", err |-> "", map |-> shapeMap]
     ELSE [st |-> "ok", err |-> "", map |-> putOutput(node, shapeMap, r.val)]

ErrInputType == "Input type doesn't support yet."

\* A concrete input (at::IValue) is a record [tag, sizes, v, list].
\* IValue::toInt of a Bool or an Int: its payload.
toInt(input) == input.v

\* Variant: an integer list is stored with the one-dimensional shape {n}.
RECURSIVE getGraphIntputShape_FlatList(_, _, _)
getGraphIntputShape_FlatList(gInputs, inputs, shapeMap) ==
  IF inputs = <<>> THEN [err |-> "", map |-> shapeMap]
  ELSE LET input == Head(inputs)
           entry == IF input.tag = "Tensor" THEN Meta(input.sizes, <<>>)
                    ELSE IF input.tag \in {"Bool", "Int"} THEN Meta(<<1>>, <<input.v>>)
                    ELSE IF input.tag = "IntList" THEN Meta(<<Len(input.list)>>, input.list)
                    ELSE Meta(<<>>, <<>>)
           m == (Head(gInputs) :> entry) @@ shapeMap
       IN IF input.tag \notin {"Tensor", "Bool", "Int", "IntList"}
          THEN [err |-> ErrInputType, map |-> m]
          ELSE getGraphIntputShape_FlatList(Tail(gInputs), Tail(inputs), m)

\* getGraphIntputShape from input i on: err is "" on success.
RECURSIVE getGraphIntputShapeLoop(_, _, _, _)
getGraphIntputShapeLoop(gInputs, inputs, shapeMap, i) ==
  IF i >= Len(inputs) THEN [err |-> "", map |-> shapeMap]
  ELSE LET gInName == At(gInputs, i)
           input == At(inputs, i)
           cleared == SetMeta(shapeMap, gInName, <<>>, <<>>)
       IN IF input.tag = "Tensor"
          THEN getGraphIntputShapeLoop(gInputs, inputs,
                 SetMeta(shapeMap, gInName, input.sizes, <<>>), i + 1)
          ELSE IF input.tag = "Bool" \/ input.tag = "Int"
          THEN getGraphIntputShapeLoop(gInputs, inputs,
                 SetMeta(shapeMap, gInName, <<1>>, <<toInt(input)>>), i + 1)
          ELSE IF input.tag = "IntList"
          THEN getGraphIntputShapeLoop(gInputs, inputs,
                 SetMeta(shapeMap, gInName, <<Len(input.list), 1>>, input.list), i + 1)
          ELSE [err |-> ErrInputType, map |-> cleared]

getGraphIntputShape(gInputs, inputs, shapeMap) ==
  getGraphIntputShapeLoop(gInputs, inputs, shapeMap, 0)

\* generateGraphOutputShape from output i on: check is FALSE when the CHECK
\* fails at some output; out is outputShape_ as the loop left it.
RECURSIVE generateGraphOutputShapeLoop(_, _, _, _)
generateGraphOutputShapeLoop(gOutputs, shapeMap, outputShape, i) ==
  IF i >= Len(gOutputs) THEN [check |-> TRUE, out |-> outputShape]
  ELSE IF At(gOutputs, i) \notin DOMAIN shapeMap THEN [check |-> FALSE, out |-> outputShape]
  ELSE generateGraphOutputShapeLoop(gOutputs, shapeMap,
         Append(outputShape, shapeMap[At(gOutputs, i)].shape), i + 1)

\* Variant: each shape is put at the front of outputShape_.
generateGraphOutputShape_Front(gOutputs, shapeMap, outputShape) ==
  LET r == generateGraphOutputShapeLoop(gOutputs, shapeMap, <<>>, 0)
  IN [check |-> r.check,
      out |-> [k \in 1..Len(r.out) |-> r.out[Len(r.out) + 1 - k]] \o outputShape]

generateGraphOutputShape(gOutputs, shapeMap, outputShape) ==
  generateGraphOutputShapeLoop(gOutputs, shapeMap, outputShape, 0)

\* The words an out-of-bounds read of binaryOp can find before a vector.
GarbageWords == {0, 1, 33}

\* The contents of the words binaryOp can read before the storage of its
\* second operand: one word per dimension the first operand has in excess.
Garbage(node, shapeMap) ==
  LET in == getNodeInputShape(node, shapeMap)
      d0 == Len(At(in.metas, 0).shape)
      d1 == Len(At(in.metas, 1).shape)
  IN IF in.check /\ Len(in.metas) >= 2 /\ node.kind \in BinaryKinds
     THEN [1..Max(d0 - d1, 0) -> GarbageWords]
     ELSE IF in.check /\ Len(in.metas) >= 2 /\ node.kind = "aten::addmm"
     THEN [1..d0 -> GarbageWords]
     ELSE {<<>>}

ErrInputCount == "Number of inputs mismatch between Graph and actual inputs"

\* run(), up to the walk: the cardinality check and getGraphIntputShape.
RunEntry ==
  /\ pc = "entry"
  /\ IF Len(inputs_) # Len(graph_.inputs)
     THEN /\ result' = ErrInputCount
          /\ pc' = "returned"
          /\ UNCHANGED shapeMap_
     ELSE LET r == getGraphIntputShape(graph_.inputs, inputs_, shapeMap_)
          IN /\ shapeMap_' = r.map
             /\ IF r.err # ""
                THEN result' = r.err /\ pc' = "returned"
                ELSE result' = result /\ pc' = "walk"
  /\ UNCHANGED <<graph_, inputs_, hasEndOffset_, outputShape_, nodeIdx, earlier>>

\* run(): one iteration of the loop over graph_.nodes().
ShapeOnNode ==
  /\ pc = "walk"
  /\ nodeIdx <= Len(graph_.nodes)
  /\ \E g \in Garbage(graph_.nodes[nodeIdx], shapeMap_) :
       LET r == shapeOnNode(graph_.nodes[nodeIdx], shapeMap_, hasEndOffset_, g)
       IN /\ shapeMap_' = r.map
          /\ nodeIdx' = IF r.st = "ok" THEN nodeIdx + 1 ELSE nodeIdx
          /\ pc' = IF r.st = "ok" THEN "walk"
                   ELSE IF r.st = "err" THEN "returned"
                   ELSE IF r.st = "check" THEN "aborted"
                   ELSE "undefined"
          /\ result' = IF r.st = "err" THEN r.err ELSE result
  /\ UNCHANGED <<graph_, inputs_, hasEndOffset_, outputShape_, earlier>>

\* run(), after the walk: generateGraphOutputShape and return success.
GenerateGraphOutputShape ==
  /\ pc = "walk"
  /\ nodeIdx > Len(graph_.nodes)
  /\ LET r == generateGraphOutputShape(graph_.outputs, shapeMap_, outputShape_)
     IN /\ outputShape_' = r.out
        /\ pc' = IF r.check THEN "returned" ELSE "aborted"
        /\ result' = IF r.check THEN "success" ELSE result
  /\ UNCHANGED <<graph_, inputs_, hasEndOffset_, shapeMap_, nodeIdx, earlier>>

Next == RunEntry \/ ShapeOnNode \/ GenerateGraphOutputShape

\* run() is called a second time on the engine after it returned success: the
\* call starts at the cardinality check again, on the same graph_ and inputs_,
\* with shapeMap_ and outputShape_ as the first run left them.
RunAgain ==
  /\ pc = "returned" /\ result = "success"
  /\ earlier = <<>>
  /\ earlier' = <<[outputShape |-> outputShape_, shapeMap |-> shapeMap_]>>
  /\ pc' = "entry"
  /\ nodeIdx' = 1
  /\ result' = "none"
  /\ UNCHANGED <<graph_, inputs_, hasEndOffset_, shapeMap_, outputShape_>>

NextRerun == RunEntry \/ ShapeOnNode \/ GenerateGraphOutputShape \/ RunAgain

----------------------------------------------------------------------------
(* Graphs and inputs the engine is constructed with.                       *)

NodeRec(kind, in, out, dim, chunks, value, otype, sizes) ==
  [kind |-> kind, in |-> in, out |-> out, dim |-> dim, chunks |-> chunks,
   value |-> value, otype |-> otype, sizes |-> sizes]

Op(kind, in, out) == NodeRec(kind, in, out, 0, 0, 0, "Tensor", <<>>)

Graph(gInputs, nodes, gOutputs) ==
  [inputs |-> gInputs, nodes |-> nodes, outputs |-> gOutputs]

Tensor(sizes) == [tag |-> "Tensor", sizes |-> sizes, v |-> 0, list |-> <<>>]

IntV(v) == [tag |-> "Int", sizes |-> <<>>, v |-> v, list |-> <<>>]

BoolV(v) == [tag |-> "Bool", sizes |-> <<>>, v |-> v, list |-> <<>>]

IntListV(l) == [tag |-> "IntList", sizes |-> <<>>, v |-> 0, list |-> l]

OtherV(tag) == [tag |-> tag, sizes |-> <<>>, v |-> 0, list |-> <<>>]

\* Shapes of rank lo..hi with sizes in D.
Shapes(lo, hi, D) == UNION {[1..r -> D] : r \in lo..hi}

EmptyMap == [v \in {} |-> Meta(<<>>, <<>>)]

\* The engine after its constructor ran.
Constructed(graph, inputs, hasEndOffset) ==
  /\ graph_ = graph
  /\ inputs_ = inputs
  /\ hasEndOffset_ = hasEndOffset
  /\ shapeMap_ = EmptyMap
  /\ outputShape_ = <<>>
  /\ pc = "entry"
  /\ nodeIdx = 1
  /\ result = "none"
  /\ earlier = <<>>

\* Single-assignment graphs with graph inputs 1 and 2: node k defines the
\* values OutId(k, 1), OutId(k, 2), ... and reads graph inputs, outputs of
\* node k - 1, or a value no earlier node defines.
OutId(k, j) == 10 * k + j

Prev(k, j) == IF k = 1 THEN j ELSE OutId(k - 1, j)

WalkMenu(k) ==
  { Op("aten::relu", <<Prev(k, 1)>>, <<OutId(k, 1)>>),
    Op("aten::relu", <<Prev(k, 2)>>, <<OutId(k, 1)>>),
    Op("aten::tanh", <<OutId(k + 1, 1)>>, <<OutId(k, 1)>>),
    Op("aten::add", <<Prev(k, 1), 2>>, <<OutId(k, 1)>>),
    Op("aten::mm", <<Prev(k, 1), 2>>, <<OutId(k, 1)>>),
    NodeRec("prim::ConstantChunk", <<Prev(k, 1)>>, <<OutId(k, 1), OutId(k, 2)>>,
            0, 2, 0, "Tensor", <<>>),
    Op("aten::sigmoid", <<Prev(k, 1), 2>>, <<OutId(k, 1)>>),
    Op("aten::dropout", <<Prev(k, 1)>>, <<OutId(k, 1)>>),
    Op("aten::embedding_bag",
       <<Prev(k, 1), Prev(k, 1), Prev(k, 1), 2, 2, 2, 2, 2>>,
       <<OutId(k, 1), OutId(k, 2), OutId(k, 3), OutId(k, 4)>>) }

RECURSIVE WalkNodes(_)
WalkNodes(n) ==
  IF n = 0 THEN {<<>>}
  ELSE {Append(s, m) : s \in WalkNodes(n - 1), m \in WalkMenu(n)}

WalkOutputs(n) ==
  { <<Prev(n + 1, 1)>>, <<1, Prev(n + 1, 1)>>, <<Prev(n + 1, 2), Prev(n + 1, 1)>>,
    <<Prev(n + 1, 1), 2, Prev(n + 1, 2)>> }

WalkInputs ==
  {<<a, b>> : a \in {Tensor(<<2, 3>>), Tensor(<<3, 3>>), Tensor(<<1, 3>>)},
              b \in {Tensor(<<3, 2>>), Tensor(<<2, 3>>), OtherV("Double")}}
    \cup {<<Tensor(<<2, 3>>)>>, <<Tensor(<<2, 3>>), Tensor(<<3, 2>>), IntV(1)>>}

Init ==
  \E n \in 0..MaxNodes :
    \E nodes \in WalkNodes(n), gOutputs \in WalkOutputs(n), inputs \in WalkInputs,
       hasEndOffset \in BOOLEAN :
      Constructed(Graph(<<1, 2>>, nodes, gOutputs), inputs, hasEndOffset)

Spec == Init /\ [][Next]_vars

\* Input binding: n graph inputs, one concrete input fewer, as many or one
\* more, and a unary node on the first graph input.
BindIValues ==
  { Tensor(<<>>), Tensor(<<2, 3>>), Tensor(<<0>>), IntV(-1), IntV(5), BoolV(0), BoolV(1),
    IntListV(<<>>), IntListV(<<2, -1>>), OtherV("Double") }

BindGraph(n) ==
  Graph([k \in 1..n |-> k],
        IF n >= 1 THEN <<Op("aten::relu", <<1>>, <<OutId(1, 1)>>)>> ELSE <<>>,
        [k \in 1..n |-> k] \o (IF n >= 1 THEN <<OutId(1, 1)>> ELSE <<>>))

InitBind ==
  \E n \in 0..MaxInputs :
    \E len \in {l \in {n - 1, n, n + 1} : l >= 0} :
      \E inputs \in [1..len -> BindIValues] :
        Constructed(BindGraph(n), inputs, TRUE)

SpecBind == InitBind /\ [][Next]_vars

\* Constant nodes: one or two prim::Constant nodes of every declared type.
Constant(k, otype, value, sizes) ==
  NodeRec("prim::Constant", <<>>, <<OutId(k, 1)>>, 0, 0, value, otype, sizes)

ConstMenu(k) ==
  {Constant(k, "Int", v, <<>>) : v \in (-1)..MaxDim}
    \cup {Constant(k, "Bool", v, <<>>) : v \in {0, 1}}
    \cup {Constant(k, t, 0, <<>>) : t \in {"Float", "None", "String"}}
    \cup {Constant(k, "Tensor", 0, sizes) : sizes \in Shapes(0, MaxRank, 0..MaxDim)}

InitConst ==
  \/ \E c1 \in ConstMenu(1) :
       Constructed(Graph(<<>>, <<c1>>, <<OutId(1, 1)>>), <<>>, TRUE)
  \/ \E c1 \in ConstMenu(1), c2 \in ConstMenu(2) :
       Constructed(Graph(<<>>, <<c1, c2>>, <<OutId(1, 1), OutId(2, 1)>>), <<>>, TRUE)

SpecConst == InitConst /\ [][Next]_vars

\* Elementwise binary nodes on two tensors: aten::add with its alpha operand,
\* aten::mul without.
BinaryNodes ==
  { Op("aten::add", <<1, 2, 3>>, <<OutId(1, 1)>>),
    Op("aten::mul", <<1, 2>>, <<OutId(1, 1)>>) }

InitBinary ==
  \E t0 \in Shapes(0, MaxRank + 1, 1..MaxDim), t1 \in Shapes(0, MaxRank + 1, 1..MaxDim),
     node \in BinaryNodes :
    Constructed(Graph(<<1, 2, 3>>, <<node>>, <<OutId(1, 1)>>),
                <<Tensor(t0), Tensor(t1), IntV(1)>>, TRUE)

SpecBinary == InitBinary /\ [][Next]_vars

\* aten::slice on a tensor whose axis dim has length L, with dim, start, end
\* and step bound as integer graph inputs.
SliceLengths == 0..MaxDim \cup {10}

SliceTensors ==
  UNION {{<<<<L>>, 0>>, <<<<L, 2>>, 0>>, <<<<2, L>>, 1>>} : L \in SliceLengths}

SliceBounds == (-(MaxDim + 1))..(MaxDim + 1) \cup {-12, 100}

InitSlice ==
  \E td \in SliceTensors :
    \E start \in SliceBounds, end \in SliceBounds, step \in 1..MaxStep :
      Constructed(Graph(<<1, 2, 3, 4, 5>>,
                        <<Op("aten::slice", <<1, 2, 3, 4, 5>>, <<OutId(1, 1)>>)>>,
                        <<OutId(1, 1)>>),
                  <<Tensor(td[1]), IntV(td[2]), IntV(start), IntV(end), IntV(step)>>,
                  TRUE)

SpecSlice == InitSlice /\ [][Next]_vars

\* prim::ConstantChunk with as many outputs as chunks, all of them graph
\* outputs.
InitChunk ==
  \E in \in Shapes(0, MaxRank, 0..MaxDim) \cup {<<10>>}, chunks \in 1..MaxChunks,
     dim \in (-(MaxRank + 1))..MaxRank :
    Constructed(Graph(<<1>>,
                      <<NodeRec("prim::ConstantChunk", <<1>>,
                                [i \in 1..chunks |-> OutId(1, i)],
                                dim, chunks, 0, "Tensor", <<>>)>>,
                      [i \in 1..chunks |-> OutId(1, i)]),
                <<Tensor(in)>>, TRUE)

SpecChunk == InitChunk /\ [][Next]_vars

\* glow::fused_stack over 1..MaxInputs + 1 tensor graph inputs: copies of one
\* shape, or copies with one position holding another shape.
StackShapes == Shapes(0, MaxRank, {2, 3}) \cup {<<5, 6>>}

StackInputs ==
  UNION {[1..k -> {base}] \cup
         {[i \in 1..k |-> IF i = p THEN other ELSE base] :
            p \in 1..k, other \in StackShapes} :
         k \in 1..(MaxInputs + 1), base \in StackShapes}

InitStack ==
  \E shapes \in StackInputs, dim \in (-(MaxRank + 2))..(MaxRank + 2) :
    Constructed(Graph([i \in 1..Len(shapes) |-> i],
                      <<NodeRec("glow::fused_stack", [i \in 1..Len(shapes) |-> i],
                                <<OutId(1, 1)>>, dim, 0, 0, "Tensor", <<>>)>>,
                      <<OutId(1, 1)>>),
                [i \in 1..Len(shapes) |-> Tensor(shapes[i])], TRUE)

SpecStack == InitStack /\ [][Next]_vars

\* aten::reshape of a tensor graph input to a target list bound from an
\* integer-list graph input. The targets have no 0 entry: with one, s1 is 0
\* and s0 % s1 is undefined.
ReshapeTargets == Shapes(0, MaxRank, ((-2)..MaxDim) \ {0}) \cup {<<-1, 4>>}

InitReshape ==
  \E in \in Shapes(0, MaxRank, 0..MaxDim) \cup {<<4, 6>>}, target \in ReshapeTargets :
    Constructed(Graph(<<1, 2>>,
                      <<Op("aten::reshape", <<1, 2>>, <<OutId(1, 1)>>)>>,
                      <<OutId(1, 1)>>),
                <<Tensor(in), IntListV(target)>>, TRUE)

SpecReshape == InitReshape /\ [][Next]_vars

\* The walk family, with a second call of run() after a successful one.
SpecRerun == Init /\ [][NextRerun]_vars

----------------------------------------------------------------------------
(* Properties of the walk, under Spec.                                     *)

Range(s) == {s[k] : k \in 1..Len(s)}

Walking == pc = "walk" /\ nodeIdx <= Len(graph_.nodes)

Collecting == pc = "walk" /\ nodeIdx > Len(graph_.nodes)

CurrentNode == graph_.nodes[nodeIdx]

\* C1: after run() returned success, outputShape_ holds one shape per declared
\* graph output, in the declared order, the i-th being the shape the store
\* records for the i-th declared output.
C1_OutputPerDeclaredOutput ==
  (pc = "returned" /\ result = "success") =>
    /\ Len(outputShape_) = Len(graph_.outputs)
    /\ \A i \in 1..Len(graph_.outputs) :
         /\ graph_.outputs[i] \in DOMAIN shapeMap_
         /\ outputShape_[i] = shapeMap_[graph_.outputs[i]].shape

C1_Witness ==
  /\ pc = "returned" /\ result = "success"
  /\ Len(graph_.nodes) = 2
  /\ Len(graph_.outputs) = 3
  /\ outputShape_[1] # outputShape_[2]
  /\ outputShape_[2] # outputShape_[3]

\* The rule of the node the walk stands at fails on the entries of its inputs.
RuleFailsHere ==
  /\ Walking
  /\ getNodeInputShape(CurrentNode, shapeMap_).check
  /\ \E g \in Garbage(CurrentNode, shapeMap_) :
       ruleDispatch(CurrentNode, getNodeInputShape(CurrentNode, shapeMap_).metas,
                    hasEndOffset_, g).st = "err"

RuleErrorHere ==
  LET g == CHOOSE h \in Garbage(CurrentNode, shapeMap_) : TRUE
  IN ruleDispatch(CurrentNode, getNodeInputShape(CurrentNode, shapeMap_).metas,
                  hasEndOffset_, g).err

\* The outputs of the node the walk stopped at and of every node after it.
OutputsFromHere ==
  UNION {Range(graph_.nodes[k].out) : k \in nodeIdx..Len(graph_.nodes)}

\* C2: when the rule of a node fails, run() returns that failure; the failing
\* node and the nodes after it leave no entry in the store, the output list
\* stays empty, and nothing happens after the return.
C2_AbortOnFirstRuleFailure ==
  [][ /\ RuleFailsHere =>
           /\ pc' = "returned"
           /\ result' = RuleErrorHere
           /\ nodeIdx' = nodeIdx
           /\ OutputsFromHere \cap DOMAIN shapeMap_' = {}
           /\ outputShape_' = <<>>
      /\ pc = "returned" => UNCHANGED vars ]_vars

C2_Witness ==
  /\ pc = "returned"
  /\ result = "The size of tensor a must match the size of tensor b"
  /\ nodeIdx = 1
  /\ Len(graph_.nodes) = 2
  /\ outputShape_ = <<>>

MissingInputHere ==
  Walking /\ \E k \in 1..Len(CurrentNode.in) : CurrentNode.in[k] \notin DOMAIN shapeMap_

MissingOutputHere ==
  Collecting /\ \E k \in 1..Len(graph_.outputs) : graph_.outputs[k] \notin DOMAIN shapeMap_

\* C3: a node input without a store entry, or a declared graph output without
\* one after the walk, ends the run in the fatal CHECK: run() returns neither
\* success nor an error, and nothing follows the abort.
C3_MissingEntryIsFatal ==
  [][ /\ MissingInputHere =>
           pc' = "aborted" /\ result' = "none" /\ outputShape_' = <<>>
                           /\ shapeMap_' = shapeMap_
      /\ MissingOutputHere => pc' = "aborted" /\ result' = "none"
      /\ pc = "aborted" => UNCHANGED vars ]_vars

\* The run aborted at node 2, which reads an output of the embedding_bag node
\* before it that the store never received.
C3_Witness ==
  /\ pc = "aborted" /\ result = "none"
  /\ nodeIdx = 2
  /\ Len(graph_.nodes) = 2
  /\ graph_.nodes[1].kind = "aten::embedding_bag"
  /\ graph_.nodes[2].in = <<OutId(1, 2)>>
  /\ OutId(1, 1) \in DOMAIN shapeMap_

\* C4: a step never changes or removes an entry the store already holds, and
\* creates entries only for the graph inputs (binding) or for the outputs of
\* the node it processes.
C4_EntriesWrittenOnce ==
  [][ /\ \A v \in DOMAIN shapeMap_ :
           v \in DOMAIN shapeMap_' /\ shapeMap_'[v] = shapeMap_[v]
      /\ (DOMAIN shapeMap_') \ (DOMAIN shapeMap_) \subseteq
           IF pc = "entry" THEN Range(graph_.inputs)
           ELSE IF Walking THEN Range(CurrentNode.out)
           ELSE {} ]_vars

C4_Witness ==
  /\ pc = "returned" /\ result = "success"
  /\ Len(graph_.nodes) = 2
  /\ {1, 2, OutId(1, 1), OutId(1, 2), OutId(2, 1)} \subseteq DOMAIN shapeMap_

----------------------------------------------------------------------------
(* Properties of input binding, under SpecBind.                            *)

SupportedInput(input) == input.tag \in {"Tensor", "Bool", "Int", "IntList"}

\* What binding records for a concrete input of a supported kind.
BoundMeta(input) ==
  IF input.tag = "Tensor" THEN Meta(input.sizes, <<>>)
  ELSE IF input.tag = "IntList" THEN Meta(<<Len(input.list), 1>>, input.list)
  ELSE Meta(<<1>>, <<input.v>>)

\* The positions of the concrete inputs up to the first unsupported one.
BoundPositions ==
  {i \in 1..Len(inputs_) : \A j \in 1..i : SupportedInput(inputs_[j])}

\* C7: once run() is past binding, a cardinality mismatch has returned its
\* error with the store empty and no node processed; an unsupported input has
\* returned the unsupported-type error; and every graph input paired with a
\* supported concrete input holds the entry its kind prescribes.
C7_InputBinding ==
  pc # "entry" =>
    IF Len(inputs_) # Len(graph_.inputs)
    THEN /\ pc = "returned" /\ result = ErrInputCount
         /\ DOMAIN shapeMap_ = {}
         /\ nodeIdx = 1 /\ outputShape_ = <<>>
    ELSE /\ \A i \in BoundPositions :
              /\ graph_.inputs[i] \in DOMAIN shapeMap_
              /\ shapeMap_[graph_.inputs[i]] = BoundMeta(inputs_[i])
         /\ (\E i \in 1..Len(inputs_) : ~SupportedInput(inputs_[i]))
              => /\ pc = "returned" /\ result = ErrInputType
                 /\ nodeIdx = 1 /\ outputShape_ = <<>>
         /\ (\A i \in 1..Len(inputs_) : SupportedInput(inputs_[i]))
              => result # ErrInputType /\ result # ErrInputCount

C7_Witness ==
  /\ pc = "returned" /\ result = "success"
  /\ Len(inputs_) = 2
  /\ inputs_[1].tag = "Bool" /\ inputs_[1].v = 1
  /\ inputs_[2].tag = "IntList" /\ Len(inputs_[2].list) = 2
  /\ shapeMap_[2] = Meta(<<2, 1>>, inputs_[2].list)

----------------------------------------------------------------------------
(* Properties of constant nodes, under SpecConst.                          *)

\* The constant nodes the walk has processed.
ProcessedConstants ==
  {k \in 1..Len(graph_.nodes) : k < nodeIdx /\ graph_.nodes[k].kind = "prim::Constant"}

StoredFor(k) == shapeMap_[At(graph_.nodes[k].out, 0)]

ConstantStoredAs(k, noneMeta) ==
  LET node == graph_.nodes[k]
  IN /\ node.otype = "None" => StoredFor(k) = noneMeta
     /\ node.otype = "Float" => StoredFor(k) = Meta(<<1>>, <<1>>)
     /\ node.otype \in {"Int", "Bool"} => StoredFor(k) = Meta(<<1>>, <<node.value>>)
     /\ node.otype = "Tensor" => StoredFor(k) = Meta(node.sizes, <<>>)

\* C8 as stated: a None-typed constant is stored with an empty shape and no
\* intValues; Float as {1} with value 1; Int and Bool as {1} with the literal;
\* Tensor as the literal's sizes with no intValues.
C8_NoneStoredEmpty ==
  \A k \in ProcessedConstants : ConstantStoredAs(k, Meta(<<>>, <<>>))

\* C8 amended: a None-typed constant is stored with the shape {1} and no
\* intValues; the other types as stated.
C8_NoneStoredAsCarrier ==
  \A k \in ProcessedConstants : ConstantStoredAs(k, Meta(<<1>>, <<>>))

C8_Witness ==
  /\ pc = "returned" /\ result = "success"
  /\ Len(graph_.nodes) = 2
  /\ graph_.nodes[1].otype = "None"
  /\ graph_.nodes[2].otype = "Tensor" /\ Len(graph_.nodes[2].sizes) = 2
  /\ outputShape_ = <<(<<1>>), graph_.nodes[2].sizes>>

----------------------------------------------------------------------------
(* Properties of the elementwise binary rule, under SpecBinary.            *)

Min(a, b) == IF a <= b THEN a ELSE b

\* Right-aligned broadcasting of two shapes, as NumPy defines it.
BroadcastCompatible(t0, t1) ==
  \A i \in 0..(Min(Len(t0), Len(t1)) - 1) :
    LET a == At(t0, Len(t0) - 1 - i)
        b == At(t1, Len(t1) - 1 - i)
    IN a = b \/ a = 1 \/ b = 1

Broadcast(t0, t1) ==
  LET dim == Max(Len(t0), Len(t1))
  IN [k \in 1..dim |->
        LET i == dim - k
        IN IF i >= Len(t0) THEN At(t1, Len(t1) - 1 - i)
           ELSE IF i >= Len(t1) THEN At(t0, Len(t0) - 1 - i)
           ELSE Max(At(t0, Len(t0) - 1 - i), At(t1, Len(t1) - 1 - i))]

\* C6: with a second operand whose shape length is not 1, the binary node
\* succeeds exactly on broadcast-compatible shapes, its result is their
\* broadcast, and on incompatible shapes it fails with the mismatched-size
\* error.
C6_BinaryOpBroadcasts ==
  (pc = "returned" /\ Len(inputs_[2].sizes) # 1) =>
    LET t0 == inputs_[1].sizes
        t1 == inputs_[2].sizes
    IN IF BroadcastCompatible(t0, t1)
       THEN /\ result = "success"
            /\ shapeMap_[OutId(1, 1)].shape = Broadcast(t0, t1)
       ELSE result = "The size of tensor a must match the size of tensor b"

----------------------------------------------------------------------------
(* Properties of the slice rule, under SpecSlice.                          *)

CeilDiv(a, b) == (a + b - 1) \div b

\* The length C9 states for an axis of length L.
SliceLength(L, start, end, step) ==
  IF start >= L \/ end <= -L THEN 0
  ELSE LET s == IF start <= -L THEN 0 ELSE IF start < 0 THEN start + L ELSE start
           e == IF end > L THEN L ELSE IF end < 0 THEN end + L ELSE end
       IN IF s >= e THEN 0 ELSE CeilDiv(e - s, step)

\* C9: the slice node succeeds; its result equals the input shape on every
\* axis but dim, has SliceLength on axis dim, and that length is within
\* [0, L].
C9_SliceLength ==
  pc = "returned" =>
    LET in == inputs_[1].sizes
        dim == inputs_[2].v
        L == At(in, dim)
        out == shapeMap_[OutId(1, 1)].shape
    IN /\ result = "success"
       /\ Len(out) = Len(in)
       /\ \A k \in 0..(Len(in) - 1) : k # dim => At(out, k) = At(in, k)
       /\ At(out, dim) = SliceLength(L, inputs_[3].v, inputs_[4].v, inputs_[5].v)
       /\ At(out, dim) >= 0 /\ At(out, dim) <= L

\* L = 10, start = -12, end = 100, step = 1: both ends are clamped and the
\* result keeps the whole axis.
C9_Witness ==
  /\ pc = "returned" /\ result = "success"
  /\ inputs_[1].sizes = <<10>> /\ inputs_[2].v = 0
  /\ inputs_[3].v = -12 /\ inputs_[4].v = 100 /\ inputs_[5].v = 1
  /\ outputShape_ = <<(<<10>>)>>

----------------------------------------------------------------------------
(* Properties of constant chunking, under SpecChunk.                       *)

RECURSIVE Sum(_)
Sum(s) == IF s = <<>> THEN 0 ELSE Head(s) + Sum(Tail(s))

\* C10: with dim in [-r, r) the chunk node gives output i the input shape with
\* axis dim resized to the i-th piece (ceil for all but the last, the rest for
\* the last), the pieces sum to the axis size, and there are chunks of them;
\* with dim outside, it fails with the out-of-range error.
C10_ChunkPieces ==
  pc = "returned" =>
    LET node == graph_.nodes[1]
        in == inputs_[1].sizes
        r == Len(in)
        chunks == node.chunks
    IN IF node.dim >= -r /\ node.dim < r
       THEN LET nd == IF node.dim < 0 THEN node.dim + r ELSE node.dim
                size == At(in, nd)
                ceil == (size + chunks - 1) \div chunks
                piece(i) == IF i < chunks THEN ceil ELSE size - ceil * (chunks - 1)
            IN /\ result = "success"
               /\ Len(outputShape_) = chunks
               /\ \A i \in 1..chunks :
                    /\ shapeMap_[OutId(1, i)] = Meta(SetAt(in, nd, piece(i)), <<>>)
                    /\ outputShape_[i] = SetAt(in, nd, piece(i))
               /\ Sum([i \in 1..chunks |-> At(outputShape_[i], nd)]) = size
       ELSE /\ result = "Dim value is out of range."
            /\ DOMAIN shapeMap_ = {1}

\* An axis of size 10 in 3 chunks along dim -1: pieces 4, 4 and 2.
C10_Witness ==
  /\ pc = "returned" /\ result = "success"
  /\ inputs_[1].sizes = <<10>>
  /\ graph_.nodes[1].dim = -1 /\ graph_.nodes[1].chunks = 3
  /\ outputShape_ = <<(<<4>>), (<<4>>), (<<2>>)>>

----------------------------------------------------------------------------
(* Properties of fused stacking, under SpecStack.                          *)

StackErrDim == "Dim must be less than the rank of inputs plus the added dimension"

StackErrShape == "All inputs must have same shape"

StackShapeOf(i) == inputs_[i].sizes

StackAllSame == \A i \in 1..Len(inputs_) : StackShapeOf(i) = StackShapeOf(1)

\* The dim attribute with rank + 1 added when it is negative.
StackNormDim ==
  LET d == graph_.nodes[1].dim
  IN IF d < 0 THEN d + Len(StackShapeOf(1)) + 1 ELSE d

StackFails == result \in {StackErrDim, StackErrShape} /\ outputShape_ = <<>>

StackInserted ==
  /\ result = "success"
  /\ outputShape_ = <<InsertAt(StackShapeOf(1), StackNormDim, Len(inputs_))>>

StackPassThrough == result = "success" /\ outputShape_ = <<StackShapeOf(1)>>

\* C11 as stated: with k >= 2 inputs of one shape of rank r, every normalized
\* dim in [0, r + 1] succeeds with a dimension of size k inserted at dim; a
\* differing shape or a normalized dim outside [0, r + 1] fails; a single input
\* passes through unchanged.
C11_StackRangeToRankPlusOne ==
  pc = "returned" =>
    IF Len(inputs_) = 1 THEN StackPassThrough
    ELSE IF StackAllSame /\ StackNormDim \in 0..(Len(StackShapeOf(1)) + 1)
         THEN StackInserted
    ELSE StackFails

\* C11 amended: with k >= 2 inputs of one shape of rank r, every normalized
\* dim in [0, r] succeeds and returns the input shape with a dimension of size
\* k inserted at dim; a normalized dim outside [0, r] fails with the dim error,
\* and otherwise a differing shape fails with the shape error; a single input
\* passes through unchanged, whatever dim is.
C11_StackRangeToRank ==
  pc = "returned" =>
    IF Len(inputs_) = 1 THEN StackPassThrough
    ELSE IF StackNormDim \notin 0..Len(StackShapeOf(1))
         THEN result = StackErrDim /\ outputShape_ = <<>>
    ELSE IF ~StackAllSame
         THEN result = StackErrShape /\ outputShape_ = <<>>
    ELSE StackInserted

\* Three inputs [5,6] stacked at dim 1 give [5,3,6].
C11_Witness ==
  /\ pc = "returned" /\ result = "success"
  /\ Len(inputs_) = 3 /\ \A i \in 1..3 : StackShapeOf(i) = <<5, 6>>
  /\ graph_.nodes[1].dim = 1
  /\ outputShape_ = <<(<<5, 3, 6>>)>>

----------------------------------------------------------------------------
(* Properties of reshape, under SpecReshape.                               *)

\* C12: whenever reshape succeeds, the product of the returned dimensions
\* equals the product of the input's dimensions.
C12_ReshapeKeepsElementCount ==
  (pc = "returned" /\ result = "success") =>
    Product(outputShape_[1]) = Product(inputs_[1].sizes)

----------------------------------------------------------------------------
(* Properties of a repeated run, under SpecRerun.                          *)

SecondRunEnded == earlier # <<>> /\ pc \in {"returned", "aborted", "undefined"}

\* C13: a second run() after a successful one succeeds again, leaves
\* getGraphOutputShape() as it was after the first run, with one shape per
\* declared graph output, and leaves the metadata store as it was.
C13_RunIdempotent ==
  SecondRunEnded =>
    /\ pc = "returned" /\ result = "success"
    /\ outputShape_ = earlier[1].outputShape
    /\ Len(outputShape_) = Len(graph_.outputs)
    /\ shapeMap_ = earlier[1].shapeMap

\* C5: every shape the store records consists of non-negative integers.
C5_ShapesNonNegative ==
  \A v \in DOMAIN shapeMap_ :
    \A k \in 1..Len(shapeMap_[v].shape) : shapeMap_[v].shape[k] >= 0

====
